---- MODULE Spec2Model ----
(***************************************************************************)
(* Model of the measurement loops of qcodes/loops.py and the loop actions  *)
(* of qcodes/actions.py.                                                   *)
(*                                                                         *)
(* An ActiveLoop (a compiled plan) is a record; a call of run() is a stack *)
(* of _run_loop frames, one per nesting level, each with its position in   *)
(* the for-loops of _run_loop.  Every externally visible effect (setter    *)
(* call, getter call, task call, sleep, wait, send_string) is appended to  *)
(* trace in the order in which the code performs it.                       *)
(***************************************************************************)
EXTENDS Integers, Sequences, FiniteSets, TLC

VARIABLES
    status,     \* where the caller of run() is: idle, running, wrapped, done, failed
    failure,    \* the exception that left run(), "none" if none did
    top,        \* the ActiveLoop run() was called on
    stack,      \* the _run_loop frames, outermost first
    ActiveLoop_ID,  \* the class attribute ActiveLoop.ID
    halt,       \* per ActiveLoop object: a halt request waits in its signal_queue
    trace,      \* the effects of the current run() call, in order
    runs,       \* number of run() calls made so far
    used,       \* the values of ID taken by the _run_loop frames so far
    prev,       \* the effects of the run() call before the current one
    heap,       \* the Loop and ActiveLoop objects made by the builder, by id
    last        \* the last builder call: receiver, arguments, result

vars == <<status, failure, top, stack, ActiveLoop_ID, halt, trace, runs,
          used, prev, heap, last>>

----------------------------------------------------------------------------
(* Bounds *)

\* number of run() calls in one behaviour
MaxRuns == 2

\* number of halt requests that wait in signal queues at the same time
MaxPending == 1

\* number of builder calls made on the objects the builder starts with
MaxCalls == 2

\* values a measurement getter may return
GetValues == {7, 8}

----------------------------------------------------------------------------
(* actions.py: the action classes *)

\* the module-level PUB socket and the missing handle
SOCKET == "SOCKET"
NoSocket == "None"

\* Task(func): a callable without a name attribute
Task(func) ==
    [kind |-> "Task", name |-> func, delay |-> 0, loop |-> <<>>]

\* Wait(delay): the constructor rejects negative delays
Wait(delay) ==
    [kind |-> "Wait", name |-> "", delay |-> delay, loop |-> <<>>]

\* BreakIf(condition)
BreakIf(condition) ==
    [kind |-> "BreakIf", name |-> condition, delay |-> 0, loop |-> <<>>]

\* a parameter: callable, returns a value, has a name attribute
Parameter(name) ==
    [kind |-> "Parameter", name |-> name, delay |-> 0, loop |-> <<>>]

\* a multi-valued parameter: callable, has names instead of name
MultiParameter(names) ==
    [kind |-> "MultiParameter", name |-> names, delay |-> 0, loop |-> <<>>]

\* an ActiveLoop used as an action of another loop (the plan is kept in a
\* one-element sequence so that every action has the same shape)
Nested(plan) ==
    [kind |-> "ActiveLoop", name |-> "", delay |-> 0, loop |-> <<plan>>]

\* hasattr(f, 'name'): only parameters define it; Task, Wait and BreakIf
\* set func/args/kwargs, delay and condition only
HasName(f) == f.kind = "Parameter"

\* type(f) == ActiveLoop
IsActiveLoop(f) == f.kind = "ActiveLoop"

----------------------------------------------------------------------------
(* loops.py: ActiveLoop *)

\* a SweepValues object: the parameter it sets and its setpoints
Sweep(param, values) == [param |-> param, values |-> values]

\* ActiveLoop.__init__; obj is the identity of the created object
ActiveLoop(obj, sweep_values, delay, actions, then_actions, socket) ==
    [obj          |-> obj,
     sweep_values |-> sweep_values,
     delay        |-> delay,
     actions      |-> actions,
     then_actions |-> then_actions,
     socket       |-> socket,
     nest_first   |-> IsActiveLoop(actions[1])]

\* a then() that never overwrites
attach_always_append(loop, actions, overwrite) ==
    [loop EXCEPT !.then_actions = loop.then_actions \o actions]

\* _attach_then_actions
attach_then_actions(loop, actions, overwrite) ==
    IF overwrite
    THEN [loop EXCEPT !.then_actions = actions]
    ELSE [loop EXCEPT !.then_actions = loop.then_actions \o actions]

\* ActiveLoop.then: the copy is built without socket and progress_interval
ActiveLoop_then(obj, self, actions, overwrite) ==
    attach_then_actions(
        ActiveLoop(obj, self.sweep_values, self.delay, self.actions,
                   self.then_actions, NoSocket),
        actions, overwrite)

----------------------------------------------------------------------------
(* loops.py: the builder.  Loop and ActiveLoop objects live in a heap, a    *)
(* sequence of records whose index is the identity of the object; a builder *)
(* call takes a heap and returns the new heap, the id of the result (0 for  *)
(* none) and the exception it raised.                                       *)

\* Python's None for station and progress_interval
None == "None"

\* a Loop used as an action: the builder object is referred to by its id
LoopAction(id) ==
    [kind |-> "Loop", name |-> "", delay |-> 0, loop |-> <<id>>]

\* an object that is no action at all, and one that has get but no name(s)
Other(repr) ==
    [kind |-> "Other", name |-> repr, delay |-> 0, loop |-> <<>>]

GetterOnly(repr) ==
    [kind |-> "GetterOnly", name |-> repr, delay |-> 0, loop |-> <<>>]

Returned(h, id) == [heap |-> h, res |-> id, err |-> "none"]
Raised(h, exc) == [heap |-> h, res |-> 0, err |-> exc]

\* a new object takes the next id
Alloc(h, o) == Returned(Append(h, o), Len(h) + 1)

\* a delay check that lets every delay pass
DelayRejectedNever(delay) == FALSE

\* `if delay < 0` of Loop.__init__
DelayRejected(delay) == delay < 0

\* `if not delay >= 0` of Wait.__init__
WaitDelayRejected(delay) == ~(delay >= 0)

\* Wait.__init__: the Wait or the ValueError
Wait_init(delay) ==
    IF WaitDelayRejected(delay)
    THEN [err |-> "ValueError", val |-> <<>>]
    ELSE [err |-> "none", val |-> <<Wait(delay)>>]

\* Loop.__init__
Loop_init(h, sweep_values, delay, station, progress_interval, socket) ==
    IF DelayRejected(delay)
    THEN Raised(h, "ValueError")
    ELSE Alloc(h, [cls               |-> "Loop",
                   sweep_values      |-> sweep_values,
                   delay             |-> delay,
                   station           |-> station,
                   nested_loop       |-> 0,
                   then_actions      |-> <<>>,
                   progress_interval |-> progress_interval,
                   socket            |-> socket])

\* a _copy that hands back the receiver itself
Loop_nocopy(h, self) == Returned(h, self)

\* Loop._copy: Loop(sweep_values, delay, progress_interval=...), then
\* nested_loop, then_actions and station are taken over; the socket is not
Loop_copy(h, self) ==
    LET r == Loop_init(h, h[self].sweep_values, h[self].delay, None,
                       h[self].progress_interval, SOCKET)
    IN  IF r.err # "none"
        THEN r
        ELSE Returned([r.heap EXCEPT
                          ![r.res].nested_loop = h[self].nested_loop,
                          ![r.res].then_actions = h[self].then_actions,
                          ![r.res].station = h[self].station],
                      r.res)

\* Loop.loop: the copy gets the new Loop as its nested loop, or the copy's
\* nested loop is replaced by the result of nesting in it
RECURSIVE Loop_loop(_, _, _, _)
Loop_loop(h, self, sweep_values, delay) ==
    LET c   == Loop_copy(h, self)
        out == c.res
        n   == IF c.heap[out].nested_loop # 0
               THEN Loop_loop(c.heap, c.heap[out].nested_loop,
                              sweep_values, delay)
               ELSE Loop_init(c.heap, sweep_values, delay, None, None, SOCKET)
    IN  IF n.err # "none"
        THEN Raised(h, n.err)
        ELSE Returned([n.heap EXCEPT ![out].nested_loop = n.res], out)

\* the sweeps and delays of a builder and of its nested builders, outermost
\* first
RECURSIVE Chain(_, _)
Chain(h, id) ==
    IF id = 0
    THEN <<>>
    ELSE <<[sweep_values |-> h[id].sweep_values, delay |-> h[id].delay]>>
         \o Chain(h, h[id].nested_loop)

\* the builders of the chain of a builder, outermost first
RECURSIVE ChainIds(_, _)
ChainIds(h, id) ==
    IF id = 0 THEN <<>> ELSE <<id>> \o ChainIds(h, h[id].nested_loop)

\* Station.default.default_measurement: the actions a Loop without actions
\* of its own is compiled with
default_measurement == <<Parameter("D")>>

\* the whitelist of Loop.validate_actions: Task, Wait, BreakIf, ActiveLoop,
\* or an object with get and with name or names
Allowed(action) ==
    \/ action.kind \in {"Task", "Wait", "BreakIf", "ActiveLoop"}
    \/ action.kind \in {"Parameter", "MultiParameter"}

\* Loop.validate_actions raises TypeError
validate_actions_raises(actions) ==
    \E j \in 1..Len(actions) : ~Allowed(actions[j])

\* ActiveLoop.__init__ on the heap: type(actions[0]) raises IndexError when
\* there is no action
ActiveLoop_init(h, sweep_values, delay, actions, then_actions, station, progress_interval, socket) ==
    IF actions = <<>>
    THEN Raised(h, "IndexError")
    ELSE Alloc(h, [cls               |-> "ActiveLoop",
                   plan              |-> ActiveLoop(ToString(Len(h) + 1),
                                            sweep_values, delay, actions,
                                            then_actions, socket),
                   station           |-> station,
                   progress_interval |-> progress_interval])

\* Loop.each: Loop actions are compiled with the default measurement, the
\* actions are validated, a nested loop takes the actions and its plan
\* becomes the only action, and the ActiveLoop is made
RECURSIVE Loop_each(_, _, _)
RECURSIVE ActivateLoops(_, _)
ActivateLoops(h, actions) ==
    IF actions = <<>>
    THEN [heap |-> h, err |-> "none", actions |-> <<>>]
    ELSE LET a == Head(actions)
             r == IF a.kind = "Loop"
                  THEN Loop_each(h, a.loop[1], default_measurement)
                  ELSE Returned(h, 0)
         IN  IF r.err # "none"
             THEN [heap |-> h, err |-> r.err, actions |-> <<>>]
             ELSE LET rest == ActivateLoops(r.heap, Tail(actions))
                      b == IF a.kind = "Loop"
                           THEN Nested(r.heap[r.res].plan)
                           ELSE a
                  IN  [heap    |-> rest.heap,
                       err     |-> rest.err,
                       actions |-> <<b>> \o rest.actions]

\* an each that attaches the actions to the receiver and leaves its nested loop out
Loop_each_flat(h, self, actions) ==
    ActiveLoop_init(h, h[self].sweep_values, h[self].delay, actions,
                    h[self].then_actions, h[self].station,
                    h[self].progress_interval, h[self].socket)

\* Loop.each
Loop_each(h, self, actions) ==
    LET act == ActivateLoops(h, actions)
    IN  IF act.err # "none"
        THEN Raised(h, act.err)
        ELSE IF validate_actions_raises(act.actions)
        THEN Raised(h, "TypeError")
        ELSE LET n == IF h[self].nested_loop # 0
                      THEN Loop_each(act.heap, h[self].nested_loop, act.actions)
                      ELSE Returned(act.heap, 0)
                 own == IF h[self].nested_loop # 0 /\ n.err = "none"
                        THEN <<Nested(n.heap[n.res].plan)>>
                        ELSE act.actions
                 r == ActiveLoop_init(n.heap, h[self].sweep_values,
                          h[self].delay, own, h[self].then_actions,
                          h[self].station, h[self].progress_interval,
                          h[self].socket)
             IN  IF n.err # "none"
                 THEN Raised(h, n.err)
                 ELSE IF r.err # "none" THEN Raised(h, r.err) ELSE r

\* a then() check that lets every action pass
ThenAllowedAny(action) == TRUE

\* `isinstance(action, (Task, Wait))` of _attach_then_actions
ThenAllowed(action) == action.kind \in {"Task", "Wait"}

\* _attach_then_actions on the object id of the heap: the check of the
\* actions, then the assignment to loop.then_actions
AttachThen(h, id, actions, overwrite) ==
    IF \E j \in 1..Len(actions) : ~ThenAllowed(actions[j])
    THEN Raised(h, "TypeError")
    ELSE IF h[id].cls = "Loop"
    THEN Returned([h EXCEPT ![id] = attach_then_actions(@, actions, overwrite)],
                  id)
    ELSE Returned([h EXCEPT ![id].plan =
                               attach_then_actions(@, actions, overwrite)],
                  id)

\* Loop.then: _attach_then_actions(self._copy(), actions, overwrite)
Loop_then(h, self, actions, overwrite) ==
    LET c == Loop_copy(h, self)
        r == AttachThen(c.heap, c.res, actions, overwrite)
    IN  IF r.err # "none" THEN Raised(h, r.err) ELSE r

\* ActiveLoop.then: a new ActiveLoop from sweep_values, delay, actions,
\* then_actions and station of the receiver, then _attach_then_actions
ActiveLoop_then_heap(h, self, actions, overwrite) ==
    LET c == ActiveLoop_init(h, h[self].plan.sweep_values, h[self].plan.delay,
                 h[self].plan.actions, h[self].plan.then_actions,
                 h[self].station, None, NoSocket)
        r == IF c.err # "none" THEN c
             ELSE AttachThen(c.heap, c.res, actions, overwrite)
    IN  IF r.err # "none" THEN Raised(h, r.err) ELSE r

\* the record of a builder call; before is the heap the call found
NoCall ==
    [n |-> 0, op |-> "", self |-> 0, sweep_values |-> Sweep("", <<>>), delay |-> 0,
     actions |-> <<>>, overwrite |-> FALSE, socket |-> "", res |-> 0,
     err |-> "none", val |-> <<>>, before |-> <<>>]

\* what the builder calls are made with
BuilderDelays == {-1, 0, 2}
BuilderSockets == {SOCKET, "sock"}
SweepOut == Sweep("out", <<10, 20>>)
SweepIn == Sweep("in", <<1, 2>>)
SweepDeep == Sweep("deep", <<5, 6>>)

LoopIds(h) == {id \in 1..Len(h) : h[id].cls = "Loop"}
ActiveLoopIds(h) == {id \in 1..Len(h) : h[id].cls = "ActiveLoop"}

EachMenu(h) ==
    {<<>>,
     <<Parameter("X"), Task("t")>>,
     <<BreakIf("c"), MultiParameter("XY"), Wait(1)>>,
     <<Parameter("X"), Other("o")>>,
     <<GetterOnly("g")>>}
    \cup {<<Nested(h[id].plan), Parameter("X")>> : id \in ActiveLoopIds(h)}
    \cup {<<Parameter("X"), LoopAction(id)>> : id \in LoopIds(h)}

ThenMenu(h) ==
    {<<Task("t1")>>,
     <<Wait(1), Task("t2")>>,
     <<Task("t1"), Parameter("X")>>,
     <<BreakIf("c")>>}
    \cup {<<Nested(h[id].plan)>> : id \in ActiveLoopIds(h)}

----------------------------------------------------------------------------
(* The plans that are run: each is built as the builder builds it (Loop.each *)
(* passes the builder's socket, SOCKET by default) or by ActiveLoop.then     *)

\* Loop(sv, 0).each(Task(log)) over [0, 1, 2]
PlanTask ==
    ActiveLoop("L1", Sweep("p", <<0, 1, 2>>), 0, <<Task("log")>>, <<>>, SOCKET)

\* Loop(out, 0).each(Loop(in, 0).each(X))
Inner2 ==
    ActiveLoop("In2", Sweep("in", <<1, 2>>), 0, <<Parameter("X")>>, <<>>, SOCKET)

PlanNested ==
    ActiveLoop("Out2", Sweep("out", <<10, 20>>), 0, <<Nested(Inner2)>>, <<>>,
               SOCKET)

\* a BreakIf inside an inner loop of 5 setpoints
Inner3 ==
    ActiveLoop("In3", Sweep("in", <<1, 2, 3, 4, 5>>), 0,
               <<Parameter("X"), BreakIf("c")>>, <<>>, SOCKET)

PlanBreak ==
    ActiveLoop("Out3", Sweep("out", <<10, 20, 30>>), 0,
               <<Nested(Inner3)>>, <<>>, SOCKET)

\* a BreakIf in a loop of 10 setpoints with finalizers
PlanFinal ==
    ActiveLoop("L4", Sweep("p", <<1, 2, 3, 4, 5, 6, 7, 8, 9, 10>>), 0,
               <<Parameter("X"), BreakIf("c")>>,
               <<Task("t1"), Wait(1), Task("t2")>>, SOCKET)

\* outer delay 3, inner delay 1, the inner loop the sole action
Inner5 ==
    ActiveLoop("In5", Sweep("in", <<1, 2>>), 1, <<Parameter("X")>>, <<>>, SOCKET)

PlanDelay ==
    ActiveLoop("Out5", Sweep("out", <<10, 20>>), 3, <<Nested(Inner5)>>, <<>>,
               SOCKET)

\* delays and finalizers on both levels, the inner loop not the first action
Inner6 ==
    ActiveLoop("In6", Sweep("in", <<1, 2>>), 1, <<Parameter("X")>>,
               <<Task("t1"), Task("t2")>>, SOCKET)

PlanMixed ==
    ActiveLoop("Out6", Sweep("out", <<10, 20>>), 2,
               <<Parameter("Y"), Nested(Inner6)>>, <<Task("t3")>>, SOCKET)

\* a Wait among the step actions
PlanWait ==
    ActiveLoop("L7", Sweep("p", <<1, 2>>), 0, <<Parameter("X"), Wait(2)>>,
               <<>>, SOCKET)

\* a parameter with names as the only action
PlanMulti ==
    ActiveLoop("L10", Sweep("p", <<1, 2>>), 0, <<MultiParameter("XY")>>,
               <<>>, SOCKET)

\* Loop(...).each(...).then(Task(t1)): plans returned by ActiveLoop.then
PlanThen ==
    ActiveLoop_then("L8", Inner2, <<Task("t1")>>, FALSE)

PlanDelayThen ==
    ActiveLoop_then("Out9", PlanDelay, <<Task("t1")>>, FALSE)

Plans ==
    {PlanTask, PlanNested, PlanBreak, PlanFinal, PlanDelay, PlanMixed,
     PlanWait, PlanMulti, PlanThen, PlanDelayThen}

\* the ActiveLoop objects reachable from a plan: itself and its nested loops
RECURSIVE ObjectsOf(_)
ObjectsOf(plan) ==
    {plan.obj} \cup
    UNION {ObjectsOf(plan.actions[j].loop[1]) :
             j \in {n \in 1..Len(plan.actions) : IsActiveLoop(plan.actions[n])}}

Objects == UNION {ObjectsOf(p) : p \in Plans}

----------------------------------------------------------------------------
(* Effects, as they are recorded in trace *)

NoEvent ==
    [ev |-> "", fid |-> 0, obj |-> "", phase |-> "", i |-> 0, value |-> 0,
     index |-> 0, kind |-> "", name |-> "", val |-> 0, dur |-> 0,
     sock |-> "", msg |-> <<>>, path |-> <<>>, exc |-> "none"]

Max(a, b) == IF a >= b THEN a ELSE b
Min(a, b) == IF a <= b THEN a ELSE b

Last(s) == s[Len(s)]
Front(s) == SubSeq(s, 1, Len(s) - 1)

\* the setpoint of a frame: enumerate() counts from 0
ValueOf(fr) == fr.plan.sweep_values.values[fr.i + 1]

\* the setpoints currently applied by the frames of the stack, outermost first
PathOf(stk) == [j \in 1..Len(stk) |-> ValueOf(stk[j])]

\* "{}/{}/{}/{}/{}".format(ID, i, value, index, name, val): the template has
\* five replacement fields, format() ignores the arguments beyond them
NumFields == 5

Format(args) == SubSeq(args, 1, Min(NumFields, Len(args)))

----------------------------------------------------------------------------
(* _run_loop: one frame per call *)

\* entry of _run_loop: delay = max(self.delay, first_delay), the for-loop
\* at its first setpoint
Frame(plan, first_delay, ID) ==
    [plan  |-> plan,
     ID    |-> ID,
     delay |-> Max(plan.delay, first_delay),
     i     |-> 0,
     index |-> 0,
     k     |-> 0,
     rem   |-> 0,
     pc    |-> IF Len(plan.sweep_values.values) > 0 THEN "set" ELSE "then"]

\* the first_delay a frame hands to a nested loop: f._run_loop() is called
\* without arguments, so the parameter keeps its default
NestedFirstDelay(fr) == 0

\* a handler that takes every exception for a break
CatchesAny(exc) == TRUE

\* `except _QcodesBreak` of _run_loop
Catches(exc) == exc = "QcodesBreak"

\* `except _QuietInterrupt` of _run_wrapper
WrapperCatches(exc) == exc = "QuietInterrupt"

\* a break that leaves _run_loop altogether
AfterBreakReturn(fr) ==
    [fr EXCEPT !.pc = "then", !.k = Len(fr.plan.then_actions)]

\* `break`: the for-loop over the setpoints is left, the then_actions follow
AfterBreak(fr) == [fr EXCEPT !.pc = "then", !.k = 0]

\* a for-loop over the setpoints that ends after its first pass
AfterActionOnce(fr) ==
    IF fr.index + 1 < Len(fr.plan.actions)
    THEN [fr EXCEPT !.index = fr.index + 1, !.delay = 0]
    ELSE [fr EXCEPT !.delay = fr.plan.delay, !.pc = "then", !.k = 0]

\* an action of the step returned: delay = 0, the next action; after the
\* last action delay = self.delay and the next setpoint, or the then_actions
AfterAction(fr) ==
    IF fr.index + 1 < Len(fr.plan.actions)
    THEN [fr EXCEPT !.index = fr.index + 1, !.delay = 0]
    ELSE IF fr.i + 1 < Len(fr.plan.sweep_values.values)
         THEN [fr EXCEPT !.i = fr.i + 1, !.index = 0,
                         !.delay = fr.plan.delay, !.pc = "set"]
         ELSE [fr EXCEPT !.delay = fr.plan.delay, !.pc = "then", !.k = 0]

\* an exception raised in the innermost frame of stk; inTry says whether the
\* raising statement is inside that frame's try block.  The call of a nested
\* loop is inside the try block of the calling frame, the call of the
\* outermost frame inside the try block of _run_wrapper.
RECURSIVE Propagate(_, _, _)
Propagate(stk, exc, inTry) ==
    IF stk = <<>>
    THEN IF WrapperCatches(exc)
         THEN [stack |-> <<>>, status |-> "wrapped", failure |-> "none"]
         ELSE [stack |-> <<>>, status |-> "failed", failure |-> exc]
    ELSE IF inTry /\ Catches(exc)
         THEN [stack   |-> Append(Front(stk), AfterBreak(Last(stk))),
               status  |-> "running",
               failure |-> "none"]
         ELSE Propagate(Front(stk), exc, TRUE)

\* the variables an exception changes
Raise(exc, inTry) ==
    LET r == Propagate(stack, exc, inTry)
    IN  /\ stack' = r.stack
        /\ status' = r.status
        /\ failure' = r.failure

\* the event of the innermost frame
Event(fr, ev) ==
    [NoEvent EXCEPT !.ev = ev, !.fid = fr.ID, !.obj = fr.plan.obj,
                    !.i = fr.i, !.value = ValueOf(fr), !.index = fr.index,
                    !.path = PathOf(stack)]

----------------------------------------------------------------------------
(* _wait and the halt signal *)

\* ActiveLoop.signal_period: the longest sleep between two signal checks
signal_period == 1

\* ActiveLoop._check_signal: a halt request in self.signal_queue is taken
\* from the queue and raises _QuietInterrupt
check_signal_raises(self) == halt[self.obj]

----------------------------------------------------------------------------
(* The operations *)

\* nothing was run before
NoRun == [top |-> PlanTask, trace |-> <<>>, ran |-> FALSE]

Init ==
    /\ status = "idle"
    /\ failure = "none"
    /\ top = PlanTask
    /\ stack = <<>>
    /\ ActiveLoop_ID = 0
    /\ halt = [o \in Objects |-> FALSE]
    /\ trace = <<>>
    /\ runs = 0
    /\ used = <<>>
    /\ prev = NoRun
    /\ heap = <<>>
    /\ last = NoCall

\* a run() that starts the count of the IDs afresh
RunRestartsID(p) ==
    /\ status \in {"idle", "done", "failed"}
    /\ runs < MaxRuns
    /\ runs' = runs + 1
    /\ top' = p
    /\ status' = "running"
    /\ failure' = "none"
    /\ ActiveLoop_ID' = 1
    /\ stack' = <<Frame(p, 0, 1)>>
    /\ trace' = <<>>
    /\ UNCHANGED halt
    /\ used' = Append(used, 1)
    /\ UNCHANGED <<prev, heap, last>>

\* ActiveLoop.run up to the entry of the outermost _run_loop:
\* ActiveLoop.ID += 1; ID = ActiveLoop.ID
Run(p) ==
    /\ status \in {"idle", "done", "failed"}
    /\ runs < MaxRuns
    /\ runs' = runs + 1
    /\ top' = p
    /\ status' = "running"
    /\ failure' = "none"
    /\ ActiveLoop_ID' = ActiveLoop_ID + 1
    /\ stack' = <<Frame(p, 0, ActiveLoop_ID + 1)>>
    /\ trace' = <<>>
    /\ UNCHANGED halt
    /\ used' = Append(used, ActiveLoop_ID + 1)
    /\ UNCHANGED <<prev, heap, last>>

\* an external controller puts a halt request into the signal_queue of a
\* loop object of the running plan
Halt(o) ==
    /\ status = "running"
    /\ o \in ObjectsOf(top)
    /\ ~halt[o]
    /\ Cardinality({x \in DOMAIN halt : halt[x]}) < MaxPending
    /\ halt' = [halt EXCEPT ![o] = TRUE]
    /\ UNCHANGED <<status, failure, top, stack, ActiveLoop_ID, trace, runs>>
    /\ UNCHANGED <<used, prev, heap, last>>

\* self.sweep_values.set(value), then the test of self._nest_first
SetPoint ==
    /\ status = "running"
    /\ stack # <<>>
    /\ LET fr == Last(stack)
       IN  /\ fr.pc = "set"
           /\ trace' = Append(trace,
                  [Event(fr, "set") EXCEPT !.name = fr.plan.sweep_values.param])
           /\ stack' = Append(Front(stack),
                  [fr EXCEPT !.pc = IF fr.plan.nest_first THEN "act" ELSE "wait"])
    /\ UNCHANGED <<status, failure, top, ActiveLoop_ID, halt, runs>>
    /\ UNCHANGED <<used, prev, heap, last>>

\* a _wait without `if delay`: the signal is checked for every delay
WaitEnterAlwaysPolls ==
    /\ status = "running"
    /\ stack # <<>>
    /\ LET fr == Last(stack)
       IN  /\ fr.pc = "wait"
           /\ stack' = Append(Front(stack),
                  [fr EXCEPT !.pc = "poll", !.rem = fr.delay])
           /\ trace' = Append(trace,
                  [Event(fr, "wait") EXCEPT !.dur = fr.delay])
    /\ UNCHANGED <<status, failure, top, ActiveLoop_ID, halt, runs>>
    /\ UNCHANGED <<used, prev, heap, last>>

\* self._wait(delay): nothing for delay 0, else the deadline is computed
WaitEnter ==
    /\ status = "running"
    /\ stack # <<>>
    /\ LET fr == Last(stack)
       IN  /\ fr.pc = "wait"
           /\ IF fr.delay = 0
              THEN /\ stack' = Append(Front(stack), [fr EXCEPT !.pc = "act"])
                   /\ UNCHANGED trace
              ELSE /\ stack' = Append(Front(stack),
                          [fr EXCEPT !.pc = "poll", !.rem = fr.delay])
                   /\ trace' = Append(trace,
                          [Event(fr, "wait") EXCEPT !.dur = fr.delay])
    /\ UNCHANGED <<status, failure, top, ActiveLoop_ID, halt, runs>>
    /\ UNCHANGED <<used, prev, heap, last>>

\* one round of the while-loop of _wait: the signal check, then a sleep of
\* min(t, signal_period), leaving the loop when t <= signal_period
WaitPoll ==
    /\ status = "running"
    /\ stack # <<>>
    /\ LET fr == Last(stack)
       IN  /\ fr.pc = "poll"
           /\ IF check_signal_raises(fr.plan)
              THEN /\ halt' = [halt EXCEPT ![fr.plan.obj] = FALSE]
                   /\ trace' = Append(trace,
                          [Event(fr, "poll") EXCEPT !.exc = "QuietInterrupt"])
                   /\ Raise("QuietInterrupt", FALSE)
              ELSE /\ trace' = Append(trace,
                          [Event(fr, "poll") EXCEPT
                              !.dur = Min(fr.rem, signal_period)])
                   /\ stack' = Append(Front(stack),
                          IF fr.rem <= signal_period
                          THEN [fr EXCEPT !.pc = "act", !.rem = 0]
                          ELSE [fr EXCEPT !.rem = fr.rem - signal_period])
                   /\ UNCHANGED <<status, failure, halt>>
    /\ UNCHANGED <<top, ActiveLoop_ID, runs>>
    /\ UNCHANGED <<used, prev, heap, last>>

\* what calling an action can do: return a value or raise.  A parameter
\* returns a reading or fails; Task.__call__ returns None or the function
\* fails; Wait.__call__ sleeps and returns None; BreakIf.__call__ raises
\* _QcodesBreak when the condition is truthy and returns None otherwise
Outcomes(f) ==
    CASE f.kind \in {"Parameter", "MultiParameter"} ->
            {[exc |-> "none", val |-> v] : v \in GetValues}
            \cup {[exc |-> "UserError", val |-> 0]}
      [] f.kind = "Task" ->
            {[exc |-> "none", val |-> 0], [exc |-> "UserError", val |-> 0]}
      [] f.kind = "Wait" ->
            {[exc |-> "none", val |-> 0]}
      [] f.kind = "BreakIf" ->
            {[exc |-> "none", val |-> 0], [exc |-> "QcodesBreak", val |-> 0]}

\* the call f() of an action of a frame
CallEvent(fr, f, out, phase) ==
    [Event(fr, "call") EXCEPT !.phase = phase, !.kind = f.kind,
                              !.name = f.name, !.val = out.val,
                              !.dur = f.delay, !.exc = out.exc]

\* the body of `for index, f in enumerate(self.actions)` for an action that
\* is not an ActiveLoop: val = f(); name = f.name; self.socket.send_string
StepAction(out) ==
    /\ status = "running"
    /\ stack # <<>>
    /\ LET fr == Last(stack)
           f  == fr.plan.actions[fr.index + 1]
           call == CallEvent(fr, f, out, "step")
       IN  /\ fr.pc = "act"
           /\ ~IsActiveLoop(f)
           /\ out \in Outcomes(f)
           /\ IF out.exc # "none"
              THEN /\ trace' = Append(trace, call)
                   /\ Raise(out.exc, TRUE)
              ELSE IF ~HasName(f)
              THEN /\ trace' = trace \o
                          <<call, [Event(fr, "getattr") EXCEPT
                                      !.exc = "AttributeError"]>>
                   /\ Raise("AttributeError", TRUE)
              ELSE IF fr.plan.socket = NoSocket
              THEN /\ trace' = trace \o
                          <<call, [Event(fr, "send") EXCEPT
                                      !.sock = NoSocket,
                                      !.exc = "AttributeError"]>>
                   /\ Raise("AttributeError", TRUE)
              ELSE /\ trace' = trace \o
                          <<call, [Event(fr, "send") EXCEPT
                                      !.sock = fr.plan.socket,
                                      !.kind = f.kind,
                                      !.name = f.name,
                                      !.val = out.val,
                                      !.msg = Format(<<fr.ID, fr.i, ValueOf(fr),
                                                       fr.index, f.name,
                                                       out.val>>)]>>
                   /\ stack' = Append(Front(stack), AfterAction(fr))
                   /\ UNCHANGED <<status, failure>>
    /\ UNCHANGED <<top, ActiveLoop_ID, halt, runs>>
    /\ UNCHANGED <<used, prev, heap, last>>

\* the body of the for-loop for an ActiveLoop action: f._run_loop()
EnterNested ==
    /\ status = "running"
    /\ stack # <<>>
    /\ LET fr == Last(stack)
           f  == fr.plan.actions[fr.index + 1]
       IN  /\ fr.pc = "act"
           /\ IsActiveLoop(f)
           /\ ActiveLoop_ID' = ActiveLoop_ID + 1
           /\ stack' = Append(stack,
                  Frame(f.loop[1], NestedFirstDelay(fr), ActiveLoop_ID + 1))
    /\ UNCHANGED <<status, failure, top, halt, trace, runs>>
    /\ used' = Append(used, ActiveLoop_ID + 1)
    /\ UNCHANGED <<prev, heap, last>>

\* `for f in self.then_actions: f()`, outside the try block
ThenAction(out) ==
    /\ status = "running"
    /\ stack # <<>>
    /\ LET fr == Last(stack)
       IN  /\ fr.pc = "then"
           /\ fr.k < Len(fr.plan.then_actions)
           /\ LET f == fr.plan.then_actions[fr.k + 1]
              IN  /\ out \in Outcomes(f)
                  /\ trace' = Append(trace,
                         [CallEvent(fr, f, out, "then") EXCEPT !.index = fr.k])
                  /\ IF out.exc # "none"
                     THEN Raise(out.exc, FALSE)
                     ELSE /\ stack' = Append(Front(stack),
                                 [fr EXCEPT !.k = fr.k + 1])
                          /\ UNCHANGED <<status, failure>>
    /\ UNCHANGED <<top, ActiveLoop_ID, halt, runs>>
    /\ UNCHANGED <<used, prev, heap, last>>

\* a _run_loop that publishes the marker itself before it returns
ReturnSendsDone ==
    /\ status = "running"
    /\ stack # <<>>
    /\ LET fr == Last(stack)
       IN  /\ fr.pc = "then"
           /\ fr.k = Len(fr.plan.then_actions)
           /\ trace' = trace \o
                  <<[Event(fr, "send") EXCEPT !.sock = fr.plan.socket,
                                              !.msg = <<"DONE">>],
                    Event(fr, "return")>>
           /\ IF Len(stack) = 1
              THEN /\ stack' = <<>>
                   /\ status' = "wrapped"
              ELSE /\ stack' = Append(Front(Front(stack)),
                          AfterAction(stack[Len(stack) - 1]))
                   /\ UNCHANGED status
    /\ UNCHANGED <<failure, top, ActiveLoop_ID, halt, runs>>
    /\ UNCHANGED <<used, prev, heap, last>>

\* _run_loop returns: to the for-loop of the calling frame, or to
\* _run_wrapper
Return ==
    /\ status = "running"
    /\ stack # <<>>
    /\ LET fr == Last(stack)
       IN  /\ fr.pc = "then"
           /\ fr.k = Len(fr.plan.then_actions)
           /\ trace' = Append(trace, Event(fr, "return"))
           /\ IF Len(stack) = 1
              THEN /\ stack' = <<>>
                   /\ status' = "wrapped"
              ELSE /\ stack' = Append(Front(Front(stack)),
                          AfterAction(stack[Len(stack) - 1]))
                   /\ UNCHANGED status
    /\ UNCHANGED <<failure, top, ActiveLoop_ID, halt, runs>>
    /\ UNCHANGED <<used, prev, heap, last>>

\* ActiveLoop.run after _run_wrapper: self.socket.send_string("DONE")
Finish ==
    /\ status = "wrapped"
    /\ IF top.socket = NoSocket
       THEN /\ status' = "failed"
            /\ failure' = "AttributeError"
            /\ trace' = Append(trace,
                   [NoEvent EXCEPT !.ev = "send", !.obj = top.obj,
                                   !.sock = NoSocket,
                                   !.exc = "AttributeError"])
       ELSE /\ status' = "done"
            /\ failure' = "none"
            /\ trace' = Append(trace,
                   [NoEvent EXCEPT !.ev = "send", !.obj = top.obj,
                                   !.sock = top.socket, !.msg = <<"DONE">>])
    /\ UNCHANGED <<top, stack, ActiveLoop_ID, halt, runs>>
    /\ UNCHANGED <<used, prev, heap, last>>

Next ==
    \/ \E p \in Plans : Run(p)
    \/ \E o \in Objects : Halt(o)
    \/ SetPoint
    \/ WaitEnter
    \/ WaitPoll
    \/ \E out \in [exc : {"none", "UserError", "QcodesBreak"},
                   val : GetValues \cup {0}] : StepAction(out)
    \/ EnterNested
    \/ \E out \in [exc : {"none", "UserError", "QcodesBreak"},
                   val : GetValues \cup {0}] : ThenAction(out)
    \/ Return
    \/ Finish

Spec == Init /\ [][Next]_vars

----------------------------------------------------------------------------
(* Reading the trace *)

Positions == 1..Len(trace)

\* the calls of a sweep setter
IsSet(e) == e.ev = "set"

\* the calls of step actions and of then_actions
IsStepCall(e) == e.ev = "call" /\ e.phase = "step"
IsThenCall(e) == e.ev = "call" /\ e.phase = "then"

\* a send_string that put a message on a socket
IsSent(e) == e.ev = "send" /\ e.exc = "none"

\* the terminal marker and the progress messages
IsDone(e) == IsSent(e) /\ Len(e.msg) = 1
IsProgress(e) == IsSent(e) /\ Len(e.msg) > 1

\* a BreakIf whose condition was truthy
IsBreak(e) == IsStepCall(e) /\ e.kind = "BreakIf" /\ e.exc = "QcodesBreak"

\* a getter or a task that raised
IsUserError(e) == e.ev = "call" /\ e.exc = "UserError"

\* the halt request seen by _wait
IsInterrupt(e) == e.ev = "poll" /\ e.exc = "QuietInterrupt"

\* anything a frame does at a step of its sweep
IsStepEvent(e) ==
    e.ev \in {"set", "wait", "poll", "getattr"} \/ IsStepCall(e)
    \/ (e.ev = "send" /\ e.fid # 0)

\* the positions of the trace that satisfy a test, in trace order
PositionsOf(Test(_)) == {n \in Positions : Test(trace[n])}

\* the loops of all plans, by object
RECURSIVE LoopsOf(_)
LoopsOf(plan) ==
    {plan} \cup
    UNION {LoopsOf(plan.actions[j].loop[1]) :
             j \in {n \in 1..Len(plan.actions) : IsActiveLoop(plan.actions[n])}}

LoopOf(obj) == CHOOSE l \in UNION {LoopsOf(p) : p \in Plans} : l.obj = obj

\* the run() call is over
RunOver == runs > 0 /\ status \in {"done", "failed"}

----------------------------------------------------------------------------
(* Claims *)

\* the values handed to the setter of a loop object, in call order
SetValuesOf(obj) ==
    LET Sel(e) == IsSet(e) /\ e.obj = obj
        sets == SelectSeq(trace, Sel)
    IN  [j \in 1..Len(sets) |-> sets[j].value]

\* the setpoint paths of the progress messages, in publication order
ProgressPaths ==
    LET prog == SelectSeq(trace, IsProgress)
    IN  [j \in 1..Len(prog) |-> prog[j].path]

IsPrefix(s, t) == Len(s) <= Len(t) /\ s = SubSeq(t, 1, Len(s))

\* C1: when the run of the plan with sweep [0, 1, 2], delay 0 and one Task
\* is over, the setter was called with 0, 1, 2 in this order, the Task was
\* invoked exactly 3 times, and "DONE" was published exactly once, as the
\* last effect of the run.
C1_TaskRunCompletes ==
    (top = PlanTask /\ RunOver /\ PositionsOf(IsUserError) = {})
    => /\ SetValuesOf("L1") = <<0, 1, 2>>
       /\ LET IsTask(e) == IsStepCall(e) /\ e.kind = "Task"
          IN  Cardinality(PositionsOf(IsTask)) = 3
       /\ Cardinality(PositionsOf(IsDone)) = 1
       /\ IsDone(Last(trace))

\* C2: in a run of the 2-level plan (outer [10, 20], inner [1, 2], one
\* parameter X in the inner loop, delays 0) the progress messages are
\* published for the setpoint paths (10,1), (10,2), (20,1), (20,2) in this
\* order: at any time a prefix of that sequence, and all four once run()
\* has returned.
C2_NestedOrder ==
    top = PlanNested
    => LET expected == << <<10, 1>>, <<10, 2>>, <<20, 1>>, <<20, 2>> >>
       IN  /\ IsPrefix(ProgressPaths, expected)
           /\ status = "done" => ProgressPaths = expected

\* the 2-level plan has run to its end
C2_Witness ==
    /\ top = PlanNested
    /\ status = "done"
    /\ Len(ProgressPaths) = 4

\* C3: when a BreakIf of the inner loop fired during a run of the nested
\* plan and no getter failed, the outer loop has visited all of its
\* setpoints by the time the run is over.
C3_BreakContained ==
    (top = PlanBreak /\ RunOver /\ PositionsOf(IsBreak) # {}
        /\ PositionsOf(IsUserError) = {})
    => SetValuesOf("Out3") = <<10, 20, 30>>

\* the frames that have left an effect in the trace, by their ID
FramesSeen == {trace[n].fid : n \in Positions} \ {0}

\* the calls of then_actions made by a frame, in call order
ThenCallsOf(fid) ==
    LET Sel(e) == IsThenCall(e) /\ e.fid = fid
    IN  SelectSeq(trace, Sel)

\* the loop object a frame executes
ObjOfFrame(fid) == trace[CHOOSE n \in Positions : trace[n].fid = fid].obj

\* _run_loop of the frame has returned
HasReturned(fid) ==
    \E n \in Positions : trace[n].ev = "return" /\ trace[n].fid = fid

\* C4: the then_actions of a frame are called in attachment order, each at
\* most once, and only after the last step effect of the frame; after a
\* BreakIf of the frame fired the frame does nothing but its then_actions;
\* a frame has called every one of them exactly once when it returns, and
\* every frame of a run that came to its end without a halt has returned.
C4_FinalizersOnce ==
    /\ \A fid \in FramesSeen :
          LET thens == ThenCallsOf(fid)
              fin   == LoopOf(ObjOfFrame(fid)).then_actions
              Ended(e) == e.fid = fid /\ (IsThenCall(e) \/ IsBreak(e))
              Step(e)  == e.fid = fid /\ IsStepEvent(e)
          IN  /\ Len(thens) <= Len(fin)
              /\ \A j \in 1..Len(thens) :
                    /\ thens[j].index = j - 1
                    /\ thens[j].kind = fin[j].kind
                    /\ thens[j].name = fin[j].name
              /\ \A m \in PositionsOf(Ended) : \A n \in PositionsOf(Step) :
                    n <= m
              /\ HasReturned(fid) => Len(thens) = Len(fin)
    /\ (status = "done" /\ PositionsOf(IsInterrupt) = {})
       => \A fid \in FramesSeen : HasReturned(fid)

\* a BreakIf fired at the first of 10 setpoints and the three then_actions
\* were called
C4_Witness ==
    /\ top = PlanFinal
    /\ status = "done"
    /\ PositionsOf(IsBreak) # {}
    /\ Cardinality(PositionsOf(IsThenCall)) = 3

\* C5: with outer delay 3 and inner delay 1 and the inner loop the sole
\* action, no wait precedes the first setter call of the inner loop, and
\* exactly one wait, of 3, lies between that call and the first action of
\* the inner loop.
C5_DelayInherited ==
    LET InnerCall(e) == IsStepCall(e) /\ e.obj = "In5"
        InnerSet(e) == IsSet(e) /\ e.obj = "In5"
        IsWait(e) == e.ev = "wait"
    IN  (top = PlanDelay /\ PositionsOf(InnerCall) # {})
        => LET firstCall == CHOOSE n \in PositionsOf(InnerCall) :
                               \A m \in PositionsOf(InnerCall) : n <= m
               firstSet == CHOOSE n \in PositionsOf(InnerSet) :
                               \A m \in PositionsOf(InnerSet) : n <= m
               waits == {n \in PositionsOf(IsWait) : n < firstCall}
           IN  /\ \A n \in waits : n > firstSet
               /\ Cardinality(waits) = 1
               /\ \A n \in waits : trace[n].dur = 3

\* C6: a halt request seen by a wait ends the run: nothing but the "DONE"
\* of run() follows it in the trace, no frame is left, and run() returns
\* without an exception.
C6_HaltAbsorbed ==
    \A n \in PositionsOf(IsInterrupt) :
        /\ \A m \in Positions : m > n => IsDone(trace[m])
        /\ stack = <<>>
        /\ status \in {"wrapped", "done"}
        /\ failure = "none"

\* C7: the progress messages are exactly the getter calls that returned:
\* as many, in the same order, for the same frame, step and action, and no
\* progress message is published for a Task, Wait or BreakIf.
C7_OneMessagePerMeasurement ==
    LET Got(e) == /\ IsStepCall(e)
                  /\ e.kind \in {"Parameter", "MultiParameter"}
                  /\ e.exc = "none"
        gets == SelectSeq(trace, Got)
        prog == SelectSeq(trace, IsProgress)
    IN  /\ Len(prog) = Len(gets)
        /\ \A j \in 1..Len(prog) :
              /\ prog[j].kind \in {"Parameter", "MultiParameter"}
              /\ prog[j].fid = gets[j].fid
              /\ prog[j].i = gets[j].i
              /\ prog[j].index = gets[j].index
              /\ prog[j].name = gets[j].name

\* C8: every progress message has the six fields runID, stepIndex,
\* setpointValue, actionIndex, actionName and resultValue, the last being
\* the value the getter returned.
C8_SixFields ==
    \A n \in PositionsOf(IsProgress) :
        LET e == trace[n]
        IN  /\ Len(e.msg) = 6
            /\ e.msg[1] = e.fid
            /\ e.msg[2] = e.i
            /\ e.msg[3] = e.value
            /\ e.msg[4] = e.index
            /\ e.msg[5] = e.name
            /\ e.msg[6] = e.val

\* C9: "DONE" is published by run() only, never by a frame: it is the last
\* effect of the run and is in the trace exactly once when run() has
\* returned.
C9_DoneOnce ==
    /\ \A n \in PositionsOf(IsDone) :
          /\ n = Len(trace)
          /\ trace[n].fid = 0
          /\ status = "done"
          /\ stack = <<>>
    /\ status = "done"
       => /\ Cardinality(PositionsOf(IsDone)) = 1
          /\ IsDone(Last(trace))

\* run() has returned after a nested frame returned
C9_Witness ==
    /\ status = "done"
    /\ \E n \in Positions :
          trace[n].ev = "return" /\ Len(trace[n].path) = 2

\* C10: a getter or a Task that raises during a step ends the run at once:
\* the call is the last effect in the trace, no frame is left, and the
\* exception leaves run().
C10_FailurePropagates ==
    \A n \in PositionsOf(IsUserError) :
        trace[n].phase = "step"
        => /\ n = Len(trace)
           /\ stack = <<>>
           /\ status = "failed"
           /\ failure = "UserError"

\* a getter raised in the inner loop while both loops had setpoints and
\* then_actions left
C10_Witness ==
    /\ top = PlanMixed
    /\ status = "failed"
    /\ failure = "UserError"
    /\ trace # <<>>
    /\ Last(trace).phase = "step"
    /\ Last(trace).obj = "In6"
    /\ Last(trace).i = 0
    /\ Last(trace).path = <<10, 1>>

----------------------------------------------------------------------------
(* The builder calls *)

run_state == <<status, failure, top, stack, ActiveLoop_ID, halt, trace, runs,
               used, prev>>

\* the heap and the record of a call that returned r
Called(call, r) ==
    /\ heap' = r.heap
    /\ last' = [call EXCEPT !.n = last.n + 1, !.res = r.res, !.err = r.err,
                            !.before = heap]
    /\ UNCHANGED run_state

\* Loop(sweep_values, delay, socket=socket)
NewLoop(delay, socket) ==
    /\ last.n < MaxCalls
    /\ Called([NoCall EXCEPT !.op = "Loop", !.sweep_values = SweepOut,
                             !.delay = delay, !.socket = socket],
              Loop_init(heap, SweepOut, delay, None, None, socket))

\* Wait(delay)
NewWait(delay) ==
    /\ last.n < MaxCalls
    /\ heap' = heap
    /\ last' = [NoCall EXCEPT !.n = last.n + 1, !.op = "Wait",
                              !.delay = delay,
                              !.err = Wait_init(delay).err,
                              !.val = Wait_init(delay).val,
                              !.before = heap]
    /\ UNCHANGED run_state

\* self.loop(sweep_values, delay)
Nest(self, delay) ==
    /\ last.n < MaxCalls
    /\ self \in LoopIds(heap)
    /\ Called([NoCall EXCEPT !.op = "loop", !.self = self,
                             !.sweep_values = SweepDeep, !.delay = delay],
              Loop_loop(heap, self, SweepDeep, delay))

\* self.each(*actions)
Each(self) ==
    /\ last.n < MaxCalls
    /\ self \in LoopIds(heap)
    /\ \E actions \in EachMenu(heap) :
          Called([NoCall EXCEPT !.op = "each", !.self = self,
                                !.actions = actions],
                 Loop_each(heap, self, actions))

\* self.then(*actions, overwrite=overwrite) of a Loop
Then(self, overwrite) ==
    /\ last.n < MaxCalls
    /\ self \in LoopIds(heap)
    /\ \E actions \in ThenMenu(heap) :
          Called([NoCall EXCEPT !.op = "then", !.self = self,
                                !.actions = actions, !.overwrite = overwrite],
                 Loop_then(heap, self, actions, overwrite))

\* self.then(*actions, overwrite=overwrite) of an ActiveLoop
ThenOfActive(self, overwrite) ==
    /\ last.n < MaxCalls
    /\ self \in ActiveLoopIds(heap)
    /\ \E actions \in ThenMenu(heap) :
          Called([NoCall EXCEPT !.op = "then", !.self = self,
                                !.actions = actions, !.overwrite = overwrite],
                 ActiveLoop_then_heap(heap, self, actions, overwrite))

\* the objects the builder calls start from: none; a chain of two loops,
\* Loop(out, 0).loop(in, 2); a loop with a socket of its own and a
\* finalizer and the plan compiled from it,
\* Loop(out, 2, socket=sock).then(Task(t0)).each(X)
HeapChain ==
    LET new == Loop_init(<<>>, SweepOut, 0, None, None, SOCKET)
    IN  Loop_loop(new.heap, new.res, SweepIn, 2).heap

HeapThen ==
    LET new == Loop_init(<<>>, SweepOut, 2, None, None, "sock")
        t == Loop_then(new.heap, new.res, <<Task("t0")>>, FALSE)
    IN  Loop_each(t.heap, t.res, <<Parameter("X")>>).heap

BuilderInit ==
    /\ status = "idle"
    /\ failure = "none"
    /\ top = PlanTask
    /\ stack = <<>>
    /\ ActiveLoop_ID = 0
    /\ halt = [o \in Objects |-> FALSE]
    /\ trace = <<>>
    /\ runs = 0
    /\ used = <<>>
    /\ prev = NoRun
    /\ heap \in {<<>>, HeapChain, HeapThen}
    /\ last = NoCall

BuilderNext ==
    \/ \E d \in BuilderDelays, so \in BuilderSockets : NewLoop(d, so)
    \/ \E d \in BuilderDelays : NewWait(d)
    \/ \E self \in 1..Len(heap), d \in BuilderDelays : Nest(self, d)
    \/ \E self \in 1..Len(heap) : Each(self)
    \/ \E self \in 1..Len(heap), o \in BOOLEAN : Then(self, o)
    \/ \E self \in 1..Len(heap), o \in BOOLEAN : ThenOfActive(self, o)

BuilderSpec == BuilderInit /\ [][BuilderNext]_vars

----------------------------------------------------------------------------
(* Claims about the builder *)

\* the plans of a heap, with the plans nested in them
HeapPlans(h) == UNION {LoopsOf(h[id].plan) : id \in ActiveLoopIds(h)}

\* every delay of a heap: of a Loop, of a plan at any depth, and of the Wait
\* actions among the actions and the finalizers
ActionDelays(actions) ==
    {actions[j].delay : j \in {n \in 1..Len(actions) : actions[n].kind = "Wait"}}

HeapDelays(h) ==
    {h[id].delay : id \in LoopIds(h)}
    \cup UNION {ActionDelays(h[id].then_actions) : id \in LoopIds(h)}
    \cup {p.delay : p \in HeapPlans(h)}
    \cup UNION {ActionDelays(p.actions) \cup ActionDelays(p.then_actions) :
                  p \in HeapPlans(h)}

\* C13: Wait(d), Loop(sweep, d) and loop(sweep, d) succeed for every d >= 0
\* and fail with ValueError for every d < 0; the failed call builds nothing,
\* and no delay and no Wait that the builder holds is negative.
C13_NegativeDelayRejected ==
    /\ last.op \in {"Loop", "Wait", "loop"} =>
          /\ last.delay < 0 => last.err = "ValueError"
          /\ last.delay >= 0 => last.err = "none"
          /\ last.err # "none" =>
                /\ heap = last.before
                /\ last.res = 0
                /\ last.val = <<>>
          /\ (last.op = "Wait" /\ last.err = "none") =>
                last.val = <<Wait(last.delay)>>
          /\ (last.op # "Wait" /\ last.err = "none") =>
                /\ last.res \in LoopIds(heap)
                /\ Last(Chain(heap, last.res)).delay = last.delay
    /\ \A d \in HeapDelays(heap) \cup ActionDelays(last.val) : d >= 0

\* after a Loop with delay 0 was made, a nest with a negative delay on a
\* chain of two loops was refused
C13_Witness ==
    /\ last.op = "loop"
    /\ last.delay < 0
    /\ last.err = "ValueError"
    /\ Len(Chain(heap, last.self)) = 2
    /\ \E id \in LoopIds(heap) : id > Len(HeapChain) /\ heap[id].delay = 0

\* the finalizer lists of a heap: of every Loop and of every plan at any depth
ThenLists(h) ==
    {h[id].then_actions : id \in LoopIds(h)}
    \cup {p.then_actions : p \in HeapPlans(h)}

OnlyTaskWait(actions) ==
    \A j \in 1..Len(actions) : actions[j].kind \in {"Task", "Wait"}

\* C12: whatever builder calls were made, every finalizer list of every Loop
\* and every plan holds only Task and Wait actions; a then() given anything
\* else raises TypeError and leaves every object, the receiver included, as
\* it was.
C12_FinalizersTaskWait ==
    /\ \A l \in ThenLists(heap) : OnlyTaskWait(l)
    /\ (last.op = "then" /\ ~OnlyTaskWait(last.actions)) =>
          /\ last.err = "TypeError"
          /\ last.res = 0
          /\ heap = last.before
    /\ (last.op = "then" /\ OnlyTaskWait(last.actions)) => last.err = "none"

\* a then() with a BreakIf was refused by a plan that has a finalizer, after
\* a then() that was accepted
C12_Witness ==
    /\ last.op = "then"
    /\ last.n = 2
    /\ last.actions = <<BreakIf("c")>>
    /\ last.err = "TypeError"
    /\ last.self \in ActiveLoopIds(heap)
    /\ Len(heap[last.self].plan.then_actions) = 2
    /\ Len(heap) > Len(HeapThen)

\* C14: loop(sweep_values, delay) of a builder whose chain has k levels
\* returns a new builder whose chain is the k levels of the receiver, in
\* order, followed by the new sweep and delay; every object that existed
\* before the call, the receiver and the builders of its chain included, is
\* as it was.
C14_NestPure ==
    (last.op = "loop" /\ last.err = "none") =>
        /\ last.res \in LoopIds(heap) \ (1..Len(last.before))
        /\ Chain(heap, last.res) =
              Chain(last.before, last.self)
              \o <<[sweep_values |-> last.sweep_values, delay |-> last.delay]>>
        /\ Len(heap) > Len(last.before)
        /\ \A id \in 1..Len(last.before) : heap[id] = last.before[id]
        /\ \A id \in LoopIds(last.before) :
              Chain(heap, id) = Chain(last.before, id)

\* a loop was nested into a builder with a chain of two levels, and the
\* result has three
C14_Witness ==
    /\ last.op = "loop"
    /\ last.err = "none"
    /\ Len(Chain(last.before, last.self)) = 2
    /\ Len(Chain(heap, last.res)) = 3
    /\ Chain(heap, last.res)[3].sweep_values = SweepDeep

\* the finalizers of a Loop or of an ActiveLoop of a heap
ThenOf(h, id) ==
    IF h[id].cls = "Loop" THEN h[id].then_actions ELSE h[id].plan.then_actions

\* C15: then(*actions, overwrite) of a Loop or of an ActiveLoop returns a new
\* object of the same class whose finalizers are those of the receiver
\* followed by the actions, or the actions alone when overwrite is set; the
\* receiver and every other object keep their finalizers.
C15_ThenAppends ==
    (last.op = "then" /\ last.err = "none") =>
        /\ last.res \in (1..Len(heap)) \ (1..Len(last.before))
        /\ heap[last.res].cls = last.before[last.self].cls
        /\ ThenOf(heap, last.res) =
              IF last.overwrite
              THEN last.actions
              ELSE ThenOf(last.before, last.self) \o last.actions
        /\ \A id \in 1..Len(last.before) : heap[id] = last.before[id]

\* a Loop with one finalizer got two more appended, and then the finalizer of
\* an ActiveLoop was overwritten
C15_Witness ==
    /\ last.op = "then"
    /\ last.err = "none"
    /\ last.overwrite
    /\ last.self \in ActiveLoopIds(heap)
    /\ ThenOf(last.before, last.self) = <<Task("t0")>>
    /\ ThenOf(heap, last.res) = <<Wait(1), Task("t2")>>
    /\ \E id \in LoopIds(heap) :
          heap[id].then_actions = <<Task("t0"), Wait(1), Task("t2")>>

\* the snapshot() of an action: Task, Wait and BreakIf report their type and
\* their func, delay or condition, a parameter reports its name(s), and an
\* ActiveLoop reports its snapshot_base
RECURSIVE snapshot_base(_)
RECURSIVE actions_snapshot(_)
action_snapshot(action) ==
    IF IsActiveLoop(action)
    THEN [type |-> "ActiveLoop", name |-> "", delay |-> 0,
          loop |-> <<snapshot_base(action.loop[1])>>]
    ELSE [type |-> action.kind, name |-> action.name, delay |-> action.delay,
          loop |-> <<>>]

\* _actions_snapshot
actions_snapshot(actions) ==
    [j \in 1..Len(actions) |-> action_snapshot(actions[j])]

\* a snapshot that tells the objects apart
snapshot_base_with_obj(plan) ==
    [class        |-> plan.obj,
     sweep_values |-> plan.sweep_values,
     delay        |-> plan.delay,
     actions      |-> actions_snapshot(plan.actions),
     then_actions |-> actions_snapshot(plan.then_actions)]

\* ActiveLoop.snapshot_base
snapshot_base(plan) ==
    [class        |-> "ActiveLoop",
     sweep_values |-> plan.sweep_values,
     delay        |-> plan.delay,
     actions      |-> actions_snapshot(plan.actions),
     then_actions |-> actions_snapshot(plan.then_actions)]

\* the whitelist as the specification words it: Task, Wait, BreakIf, a
\* compiled plan, an object with a getter and a name; a Loop counts as the
\* plan it is compiled to
InWhitelist(action) ==
    action.kind \in {"Task", "Wait", "BreakIf", "ActiveLoop", "Parameter",
                     "Loop"}

\* the snapshot of an action given to each(): of the plan a Loop is
\* compiled to with the default measurement, of the action itself otherwise
GivenSnapshot(h, action) ==
    IF action.kind = "Loop"
    THEN LET r == Loop_each(h, action.loop[1], default_measurement)
         IN  action_snapshot(Nested(r.heap[r.res].plan))
    ELSE action_snapshot(action)

\* level k of the plan holds the actions with these snapshots, and every
\* level above it holds the plan of the next level and nothing else
RECURSIVE PushedDown(_, _, _)
PushedDown(plan, k, snaps) ==
    IF k <= 1
    THEN actions_snapshot(plan.actions) = snaps
    ELSE /\ Len(plan.actions) = 1
         /\ IsActiveLoop(plan.actions[1])
         /\ PushedDown(plan.actions[1].loop[1], k - 1, snaps)

\* C11: each(*actions) raises TypeError and makes no plan when an action is
\* outside the whitelist (Task, Wait, BreakIf, ActiveLoop, object with a
\* getter and a name), and otherwise returns a plan that holds exactly the
\* given actions in the given order (at the innermost level of the chain,
\* Loop actions as the plans they are compiled to).
C11_WhitelistExact ==
    last.op = "each" =>
        IF \E j \in 1..Len(last.actions) : ~InWhitelist(last.actions[j])
        THEN /\ last.err = "TypeError"
             /\ last.res = 0
             /\ heap = last.before
        ELSE /\ last.err = "none"
             /\ last.res \in ActiveLoopIds(heap)
             /\ PushedDown(heap[last.res].plan,
                           Len(Chain(last.before, last.self)),
                           [j \in 1..Len(last.actions) |->
                               GivenSnapshot(last.before, last.actions[j])])

----------------------------------------------------------------------------
(* Two runs, one after the other *)

\* the trace of the run that is over is kept for comparison
Keep ==
    /\ runs = 1
    /\ RunOver
    /\ ~prev.ran
    /\ prev' = [top |-> top, trace |-> trace, ran |-> TRUE]
    /\ UNCHANGED <<status, failure, top, stack, ActiveLoop_ID, halt, trace,
                   runs, used, heap, last>>

\* what the plans of the two runs are compiled from
TwiceOuterDelays == {0, 2}
TwiceInnerDelays == {1}
TwiceActions == <<Parameter("X")>>

\* the plans of a heap that are no action of another plan of the heap, and
\* the n-th of them in the order in which they were made
TopIds(h) ==
    {id \in ActiveLoopIds(h) :
        \A other \in ActiveLoopIds(h) \ {id} :
            h[id].plan \notin LoopsOf(h[other].plan)}

NthTop(h, n) ==
    CHOOSE id \in TopIds(h) :
        Cardinality({other \in TopIds(h) : other < id}) = n - 1

\* before the first of the two runs the heap holds the builder
\* Loop(sv1, d1).loop(sv2, d2), the plan each(*a) of it, the plan of a
\* second each(*a) of it, and the plan
\* Loop(sv1, d1).each(Loop(sv2, d2).each(*a)), made in this order
TwiceInit ==
    /\ status = "idle"
    /\ failure = "none"
    /\ top = PlanTask
    /\ stack = <<>>
    /\ ActiveLoop_ID = 0
    /\ \E d1 \in TwiceOuterDelays, d2 \in TwiceInnerDelays :
       \E outer \in {Loop_init(<<>>, SweepOut, d1, None, None, SOCKET)} :
       \E chain \in {Loop_loop(outer.heap, outer.res, SweepIn, d2)} :
       \E first \in {Loop_each(chain.heap, chain.res, TwiceActions)} :
       \E again \in {Loop_each(first.heap, chain.res, TwiceActions)} :
       \E above \in {Loop_init(again.heap, SweepOut, d1, None, None, SOCKET)} :
       \E below \in {Loop_init(above.heap, SweepIn, d2, None, None, SOCKET)} :
       \E inner \in {Loop_each(below.heap, below.res, TwiceActions)} :
       \E whole \in {Loop_each(inner.heap, above.res,
                               <<Nested(inner.heap[inner.res].plan)>>)} :
          heap = whole.heap
    /\ halt = [o \in UNION {ObjectsOf(heap[id].plan) :
                                id \in ActiveLoopIds(heap)} |-> FALSE]
    /\ trace = <<>>
    /\ runs = 0
    /\ used = <<>>
    /\ prev = NoRun
    /\ last = NoCall

TwiceNext ==
    \/ runs = 0 /\ Run(heap[NthTop(heap, 1)].plan)
    \/ Keep
    \/ \E id \in TopIds(heap) :
          prev.ran /\ runs = 1 /\ Run(heap[id].plan)
    \/ \E o \in DOMAIN halt : Halt(o)
    \/ SetPoint
    \/ WaitEnter
    \/ WaitPoll
    \/ \E out \in [exc : {"none", "UserError"}, val : GetValues \cup {0}] :
          StepAction(out)
    \/ EnterNested
    \/ Return
    \/ Finish

SpecTwice == TwiceInit /\ [][TwiceNext]_vars

----------------------------------------------------------------------------
(* Claims about two runs *)

\* the three plans of the heap: each(*a) of the builder with the nested
\* loop, each(*a) of it once more, and each(Loop(sv2, d2).each(*a))
Pushed == heap[NthTop(heap, 1)].plan
Again == heap[NthTop(heap, 2)].plan
NestedByHand == heap[NthTop(heap, 3)].plan

\* the builder Loop(sv1, d1).loop(sv2, d2) of the heap
ChainBuilder == CHOOSE id \in LoopIds(heap) : heap[id].nested_loop # 0

\* what the environment did in a run: the outcome of every call of an
\* action and whether a poll of a wait found a halt request
EnvOf(t) ==
    LET s == SelectSeq(t, LAMBDA e : e.ev \in {"call", "poll"})
    IN  [n \in 1..Len(s) |-> [ev |-> s[n].ev, val |-> s[n].val,
                              exc |-> s[n].exc]]

\* the environment of the two runs made the same choices as far as both
\* runs asked for one
SameEnv == IsPrefix(EnvOf(prev.trace), EnvOf(trace))
           \/ IsPrefix(EnvOf(trace), EnvOf(prev.trace))

\* the frame IDs of a run count from the ID before its first frame
BaseOf(t) ==
    LET ids == {t[n].fid : n \in 1..Len(t)} \ {0}
    IN  IF ids = {} THEN 0 ELSE (CHOOSE a \in ids : \A b \in ids : a <= b) - 1

\* the events of a run without the identity of the objects and with the
\* frame IDs counted from the first frame of the run
Normal(t) ==
    [n \in 1..Len(t) |->
        [t[n] EXCEPT
            !.obj = "",
            !.fid = IF @ = 0 THEN 0 ELSE @ - BaseOf(t),
            !.msg = IF Len(@) = NumFields
                    THEN <<@[1] - BaseOf(t)>> \o Tail(@)
                    ELSE @]]

\* C16: Loop(sv1, d1).loop(sv2, d2).each(*a) and
\* Loop(sv1, d1).each(Loop(sv2, d2).each(*a)) have the same snapshot, the
\* outer plan has one action, the plan over sv2 with delay d2 and the
\* actions a, and when the two are run under the same environment the
\* setter calls, action calls, waits and published messages are the same
\* (frame IDs counted from the start of each run).  No run changes the
\* heap, so the plans are compared before the first run.
C16_PushDownEquivalent ==
    /\ runs = 0 =>
          /\ snapshot_base(Pushed) = snapshot_base(NestedByHand)
          /\ Pushed.socket = NestedByHand.socket
          /\ Len(Pushed.actions) = 1
          /\ IsActiveLoop(Pushed.actions[1])
          /\ Len(Chain(heap, ChainBuilder)) = 2
          /\ Pushed.sweep_values = Chain(heap, ChainBuilder)[1].sweep_values
          /\ Pushed.delay = Chain(heap, ChainBuilder)[1].delay
          /\ Pushed.actions[1].loop[1].sweep_values =
                Chain(heap, ChainBuilder)[2].sweep_values
          /\ Pushed.actions[1].loop[1].delay =
                Chain(heap, ChainBuilder)[2].delay
          /\ Pushed.actions[1].loop[1].actions = TwiceActions
    /\ (/\ prev.ran
        /\ runs = 2
        /\ RunOver
        /\ prev.top = Pushed
        /\ top = NestedByHand
        /\ SameEnv)
       => Normal(trace) = Normal(prev.trace)

\* both plans have run to the end and published four messages each
C16_Witness ==
    /\ prev.ran
    /\ runs = 2
    /\ status = "done"
    /\ prev.top = Pushed
    /\ prev.top.delay = 2
    /\ top = NestedByHand
    /\ Cardinality(PositionsOf(IsProgress)) = 4
    /\ Normal(trace) = Normal(prev.trace)

\* the strings handed to send_string in a run, in order
Published(t) ==
    LET s == SelectSeq(t, LAMBDA e : e.ev = "send" /\ e.exc = "none")
    IN  [n \in 1..Len(s) |-> s[n].msg]

\* the same builder compiled twice and the two plans run one after the
\* other under the same environment
RanBothCompilations ==
    /\ prev.ran
    /\ runs = 2
    /\ RunOver
    /\ prev.top = Pushed
    /\ top = Again
    /\ SameEnv

\* C17 as stated: the two plans of one builder have the same snapshot and,
\* run one after the other, publish the same sequence of messages.
C17_IdenticalEvents ==
    /\ runs = 0 => snapshot_base(Pushed) = snapshot_base(Again)
    /\ RanBothCompilations => Published(trace) = Published(prev.trace)

\* C17: the two plans of one builder have the same snapshot and, run one
\* after the other under the same environment, publish the same sequence of
\* messages except for the ID, the first field of every progress message:
\* the other fields are equal, and the ID is the same number of frames after
\* the first frame of its run.
C17_IdenticalUpToID ==
    /\ runs = 0 => snapshot_base(Pushed) = snapshot_base(Again)
    /\ RanBothCompilations =>
          /\ Published(Normal(trace)) = Published(Normal(prev.trace))
          /\ Len(Published(trace)) = Len(Published(prev.trace))
          /\ \A n \in 1..Len(Published(trace)) :
                LET m1 == Published(prev.trace)[n]
                    m2 == Published(trace)[n]
                IN  /\ Len(m1) = Len(m2)
                    /\ Len(m1) > 1 => Tail(m1) = Tail(m2)
                    /\ Len(m1) = 1 => m1 = m2

\* both plans have run to the end, each published four messages and "DONE",
\* and the messages of the second run carry other IDs
C17_Witness ==
    /\ RanBothCompilations
    /\ status = "done"
    /\ prev.top.delay = 0
    /\ Len(Published(trace)) = 5
    /\ Len(Published(prev.trace)) = 5
    /\ Published(trace)[1][1] # Published(prev.trace)[1][1]

\* the IDs of the frames that left an event in a trace
IDsOf(t) == {t[n].fid : n \in 1..Len(t)} \ {0}

\* C18: the ID given to a frame of _run_loop differs from the ID of every
\* frame entered before it, in the same run or in an earlier one; used is
\* the sequence of the IDs in the order in which they were given.
C18_FreshRunID ==
    /\ \A i, j \in 1..Len(used) : i < j => used[i] < used[j]
    /\ \A n \in 1..Len(stack) :
          /\ \E i \in 1..Len(used) : used[i] = stack[n].ID
          /\ \A m \in 1..Len(stack) : m # n => stack[m].ID # stack[n].ID
    /\ IDsOf(trace) \subseteq {used[i] : i \in 1..Len(used)}
    /\ (prev.ran /\ runs = 2) => IDsOf(trace) \cap IDsOf(prev.trace) = {}

\* the same plan was run twice to the end: three frames each time, six IDs
C18_Witness ==
    /\ prev.ran
    /\ top = prev.top
    /\ runs = 2
    /\ status = "done"
    /\ Len(used) = 6
    /\ Cardinality(IDsOf(trace) \cup IDsOf(prev.trace)) = 6

----------------------------------------------------------------------------
(* Claims about halt requests and waits *)

\* a Wait of non-zero duration called as an action of a step
IsWaitAction(e) == IsStepCall(e) /\ e.kind = "Wait" /\ e.dur > 0

\* C19: a halt request that is pending while a Wait action of a step sleeps
\* is seen by that Wait and ends the run as a wait of the loop does: the
\* call of the Wait raises the quiet interrupt, the request is taken, and
\* the run ends without a failure.
C19_WaitActionInterruptible ==
    \A n \in PositionsOf(IsWaitAction) :
        halt[trace[n].obj] =>
            /\ trace[n].exc = "QuietInterrupt"
            /\ failure = "none"

\* a plan whose delays are all 0 and that has no Wait, at any depth
NoWaits(plan) ==
    \A l \in LoopsOf(plan) :
        /\ l.delay = 0
        /\ ActionDelays(l.actions) = {}
        /\ ActionDelays(l.then_actions) = {}

\* a wait of a loop, or a poll of the signal in it
IsWaiting(e) == e.ev \in {"wait", "poll"}

\* some call of the run raised
IsRaised(e) == e.exc # "none"

\* C20: the halt signal is read only in a wait of non-zero duration: every
\* interrupt is raised by a poll of a wait that was entered with a delay
\* above 0, and in a run of a plan without delays and without a Wait there
\* is no wait, no poll and no interrupt, whatever halt requests are pending;
\* if no action of such a run fails, the run sets every setpoint and ends
\* with "DONE".
C20_SignalOnlyInWaits ==
    /\ \A n \in PositionsOf(IsInterrupt) :
          /\ trace[n].ev = "poll"
          /\ \E m \in Positions :
                /\ m < n
                /\ trace[m].ev = "wait"
                /\ trace[m].fid = trace[n].fid
                /\ trace[m].dur > 0
    /\ \A n \in Positions : trace[n].ev = "wait" => trace[n].dur > 0
    /\ (runs > 0 /\ NoWaits(top)) =>
          /\ PositionsOf(IsWaiting) = {}
          /\ PositionsOf(IsInterrupt) = {}
          /\ (RunOver /\ PositionsOf(IsRaised) = {}) =>
                /\ status = "done"
                /\ SetValuesOf(top.obj) = top.sweep_values.values
                /\ IsDone(Last(trace))

\* the nested plan without delays has run to its end and published its four
\* messages while a halt request for its inner loop was pending
C20_Witness ==
    /\ top = PlanNested
    /\ runs = 1
    /\ status = "done"
    /\ halt["In2"]
    /\ Cardinality(PositionsOf(IsProgress)) = 4
    /\ PositionsOf(IsWaiting) = {}


----------------------------------------------------------------------------
(* The delay after a setpoint *)

\* the first-delay the frame at depth k of the stack inherits: what the
\* calling frame still owes when it calls the nested loop, nothing for the
\* frame of the run itself
InheritedFirstDelay(k) == IF k = 1 THEN 0 ELSE stack[k - 1].delay

\* C21: a frame whose first action is not a nested loop waits, between the
\* setter and the first action, max(own delay, inherited first-delay) at its
\* first setpoint and its own delay at every later setpoint; a frame whose
\* first action is a nested loop never waits; and no delay is owed to an
\* action of a step after the first.
C21_DelayRule ==
    \A k \in 1..Len(stack) :
        LET fr == stack[k]
        IN  /\ fr.pc \in {"wait", "poll"}
               => /\ ~fr.plan.nest_first
                  /\ fr.index = 0
                  /\ fr.delay = IF fr.i = 0
                                THEN Max(fr.plan.delay, InheritedFirstDelay(k))
                                ELSE fr.plan.delay
            /\ fr.plan.nest_first => fr.pc \notin {"wait", "poll"}
            /\ (fr.pc = "act" /\ fr.index > 0) => fr.delay = 0


----------------------------------------------------------------------------
(* The socket of the objects derived from a builder *)

\* the plan compiled from a chain of n builders and the plans compiled from
\* its nested builders: each is the only action of the one before
RECURSIVE ChainPlans(_, _)
ChainPlans(plan, n) ==
    IF n <= 1
    THEN {plan}
    ELSE {plan} \cup ChainPlans(plan.actions[1].loop[1], n - 1)

\* C22: what loop, then and each make of a builder publishes to the
\* builder's socket: every builder of the chain returned by loop or then, and
\* the plan returned by each with every plan nested in it for the chain,
\* has the socket of the receiver.
C22_SocketPreserved ==
    (/\ last.op \in {"loop", "then", "each"}
     /\ last.err = "none"
     /\ last.self \in LoopIds(last.before))
    => LET s == last.before[last.self].socket
       IN  IF last.op = "each"
           THEN \A p \in ChainPlans(heap[last.res].plan,
                                    Len(ChainIds(last.before, last.self))) :
                   p.socket = s
           ELSE \A j \in 1..Len(ChainIds(heap, last.res)) :
                   heap[ChainIds(heap, last.res)[j]].socket = s


----------------------------------------------------------------------------
(* What then() of a plan keeps *)

\* C23: the plan returned by then() of a plan has the sweep, the delay, the
\* actions, the station, the progress interval and the socket of the
\* receiver; only the finalizers differ.
C23_ThenFrame ==
    (/\ last.op = "then"
     /\ last.err = "none"
     /\ last.self \in ActiveLoopIds(last.before))
    => LET self == last.before[last.self]
           res  == heap[last.res]
       IN  /\ res.cls = "ActiveLoop"
           /\ res.plan.sweep_values = self.plan.sweep_values
           /\ res.plan.delay = self.plan.delay
           /\ res.plan.actions = self.plan.actions
           /\ res.plan.nest_first = self.plan.nest_first
           /\ res.station = self.station
           /\ res.progress_interval = self.progress_interval
           /\ res.plan.socket = self.plan.socket

====
